---- MODULE Spec2Model ----
(***************************************************************************)
(* Model of the web server of server.py: the connection handler            *)
(* MyWebServer.handle, the request parser (_read_request, _read_reqline,   *)
(* parse_http_ver, _read_headers), the resolver _handle_request and the    *)
(* rendering of a Response.  Text is modelled character by character with  *)
(* TLA+ strings; the socket is a sequence of lines as readline() returns   *)
(* them; the filesystem is a map from normalised paths to nodes.           *)
(***************************************************************************)
EXTENDS Integers, Sequences, FiniteSets, TLC

\* ------------------------------------------------------------------------
\* Bounds
\* ------------------------------------------------------------------------

\* how many reads at end of stream a connection is followed through
MaxEofReads == 3

\* how many blank lines a peer sends before its request line
MaxBlank == 1

\* ------------------------------------------------------------------------
\* Text primitives (Python str methods used by the program)
\* ------------------------------------------------------------------------

CRLF == "\r\n"

Char(s, i) == SubSeq(s, i, i)

\* str.startswith
StartsWith(s, p) == Len(s) >= Len(p) /\ SubSeq(s, 1, Len(p)) = p

\* str.endswith
EndsWith(s, p) == Len(s) >= Len(p) /\ SubSeq(s, Len(s) - Len(p) + 1, Len(s)) = p

RECURSIVE SplitAt(_, _, _, _)
SplitAt(s, sep, i, cur) ==
    IF i > Len(s) THEN <<cur>>
    ELSE IF Char(s, i) = sep
         THEN <<cur>> \o SplitAt(s, sep, i + 1, "")
         ELSE SplitAt(s, sep, i + 1, cur \o Char(s, i))

\* str.split(sep) for a one-character separator
Split(s, sep) == SplitAt(s, sep, 1, "")

RECURSIVE FindFrom(_, _, _)
FindFrom(s, sep, i) ==
    IF i > Len(s) THEN 0
    ELSE IF Char(s, i) = sep THEN i ELSE FindFrom(s, sep, i + 1)

\* str.split(sep, 1): split on the first separator only
SplitFirst(s, sep) ==
    LET i == FindFrom(s, sep, 1)
    IN  IF i = 0 THEN <<s>>
        ELSE <<SubSeq(s, 1, i - 1), SubSeq(s, i + 1, Len(s))>>

RECURSIVE Join(_, _)
\* sep.join(parts)
Join(parts, sep) ==
    IF Len(parts) = 0 THEN ""
    ELSE IF Len(parts) = 1 THEN parts[1]
    ELSE parts[1] \o sep \o Join(Tail(parts), sep)

RECURSIVE RStripChars(_, _)
\* str.rstrip(chars)
RStripChars(s, chars) ==
    IF Len(s) > 0 /\ Char(s, Len(s)) \in chars
    THEN RStripChars(SubSeq(s, 1, Len(s) - 1), chars)
    ELSE s

RECURSIVE LStripChars(_, _)
\* str.lstrip(chars)
LStripChars(s, chars) ==
    IF Len(s) > 0 /\ Char(s, 1) \in chars
    THEN LStripChars(SubSeq(s, 2, Len(s)), chars)
    ELSE s

Whitespace == {" ", "\t", "\r", "\n"}

\* str.strip()
Strip(s) == LStripChars(RStripChars(s, Whitespace), Whitespace)

Digits == "0123456789"

DigitVal(ch) == FindFrom(Digits, ch, 1) - 1

IsDigit(ch) == Len(ch) = 1 /\ FindFrom(Digits, ch, 1) > 0

RECURSIVE DigitsVal(_, _)
DigitsVal(s, acc) ==
    IF Len(s) = 0 THEN acc
    ELSE DigitsVal(SubSeq(s, 2, Len(s)), acc * 10 + DigitVal(Char(s, 1)))

\* int(s): surrounding whitespace, an optional sign, then decimal digits;
\* ok = FALSE stands for ValueError
ParseInt(s) ==
    LET t    == Strip(s)
        sgn  == IF Len(t) > 0 /\ Char(t, 1) \in {"+", "-"} THEN Char(t, 1) ELSE ""
        body == SubSeq(t, Len(sgn) + 1, Len(t))
        good == Len(body) > 0 /\ \A i \in 1..Len(body) : IsDigit(Char(body, i))
    IN  IF good
        THEN [ok |-> TRUE,
              val |-> IF sgn = "-" THEN 0 - DigitsVal(body, 0) ELSE DigitsVal(body, 0)]
        ELSE [ok |-> FALSE, val |-> 0]

RECURSIVE NatToStr(_)
\* str(n) for n >= 0
NatToStr(n) ==
    IF n < 10 THEN Char(Digits, n + 1)
    ELSE NatToStr(n \div 10) \o Char(Digits, (n % 10) + 1)

\* ------------------------------------------------------------------------
\* Paths (os.path, POSIX flavour) and the filesystem
\* ------------------------------------------------------------------------

WEB_ROOT == "www/"

RECURSIVE NormComps(_, _, _)
\* the component loop of os.path.normpath
NormComps(comps, initial_slashes, new_comps) ==
    IF Len(comps) = 0 THEN new_comps
    ELSE LET comp == Head(comps)
             rest == Tail(comps)
         IN  IF comp \in {"", "."}
             THEN NormComps(rest, initial_slashes, new_comps)
             ELSE IF \/ comp # ".."
                     \/ (initial_slashes = 0 /\ Len(new_comps) = 0)
                     \/ (Len(new_comps) > 0 /\ new_comps[Len(new_comps)] = "..")
                  THEN NormComps(rest, initial_slashes, Append(new_comps, comp))
                  ELSE IF Len(new_comps) > 0
                       THEN NormComps(rest, initial_slashes,
                                      SubSeq(new_comps, 1, Len(new_comps) - 1))
                       ELSE NormComps(rest, initial_slashes, new_comps)

\* os.path.normpath: collapses '.', '..' and repeated separators lexically
NormPath(path) ==
    IF path = "" THEN "."
    ELSE LET initial_slashes ==
                 IF ~StartsWith(path, "/") THEN 0
                 ELSE IF StartsWith(path, "//") /\ ~StartsWith(path, "///") THEN 2
                 ELSE 1
             joined == Join(NormComps(Split(path, "/"), initial_slashes, <<>>), "/")
             res == (IF initial_slashes = 2 THEN "//"
                     ELSE IF initial_slashes = 1 THEN "/" ELSE "") \o joined
         IN  IF res = "" THEN "." ELSE res

\* os.path.join(a, b)
PathJoin(a, b) ==
    IF StartsWith(b, "/") THEN b
    ELSE IF a = "" \/ EndsWith(a, "/") THEN a \o b
    ELSE a \o "/" \o b

\* os.path.basename
BaseName(p) == LET parts == Split(p, "/") IN parts[Len(parts)]

DirNode == [kind |-> "dir", data |-> ""]

FileNode(data) == [kind |-> "file", data |-> data]

NoNode == [kind |-> "none", data |-> ""]

\* the node a path names in layout f (paths are looked up by their
\* normalised form; what the layout does not list does not exist)
Lookup(f, p) ==
    LET n == NormPath(p) IN IF n \in DOMAIN f THEN f[n] ELSE NoNode

\* os.path.isdir
IsDirPath(f, p) == Lookup(f, p).kind = "dir"

\* os.path.exists
ExistsPath(f, p) == Lookup(f, p).kind # "none"

\* OpenRead giving the empty text for a path that names nothing
OpenRead_MissingIsEmpty(f, p) ==
    LET n == Lookup(f, p)
    IN  IF n.kind = "dir" THEN [exc |-> "IsADirectoryError", data |-> ""]
        ELSE [exc |-> "", data |-> n.data]

\* open(p).read(): the text, or the exception open() raises
OpenRead(f, p) ==
    LET n == Lookup(f, p)
    IN  IF n.kind = "file" THEN [exc |-> "", data |-> n.data]
        ELSE IF n.kind = "dir" THEN [exc |-> "IsADirectoryError", data |-> ""]
        ELSE [exc |-> "FileNotFoundError", data |-> ""]

\* a populated web root; "secret" and "/etc" lie outside it
LayoutSite ==
    ("www" :> DirNode) @@
    ("www/index.html" :> FileNode("<p>root</p>")) @@
    ("www/a.css" :> FileNode("p{}")) @@
    ("www/t.txt" :> FileNode("text")) @@
    ("www/d" :> DirNode) @@
    ("www/d/index.html" :> FileNode("<p>d</p>")) @@
    ("www/e" :> DirNode) @@
    ("www/f" :> DirNode) @@
    ("www/f/index.html" :> DirNode) @@
    ("secret" :> FileNode("key")) @@
    ("/etc" :> FileNode("passwd"))

\* an empty web root
LayoutEmpty ==
    ("www" :> DirNode) @@
    ("secret" :> DirNode) @@
    ("/etc" :> DirNode)

\* the same names with files and directories exchanged
LayoutSwapped ==
    ("www" :> DirNode) @@
    ("www/a.css" :> DirNode) @@
    ("www/a.css/index.html" :> FileNode("<p>a</p>")) @@
    ("www/d" :> FileNode("plain d")) @@
    ("www/e" :> FileNode("")) @@
    ("secret" :> FileNode("key"))

Layouts == {LayoutSite, LayoutEmpty, LayoutSwapped}

\* ------------------------------------------------------------------------
\* Response (server.py)
\* ------------------------------------------------------------------------

OK == 200
MOVED_PERMANENTLY == 301
BAD_REQUEST == 400
NOT_FOUND == 404
METHOD_NOT_ALLOWED == 405
INTERNAL_SERVER_ERROR == 500
VERSION_NOT_SUPPORTED == 505

STATUS_MESSAGES ==
    (OK :> "OK") @@
    (MOVED_PERMANENTLY :> "Moved Permanently") @@
    (BAD_REQUEST :> "Bad Request") @@
    (NOT_FOUND :> "Not Found") @@
    (METHOD_NOT_ALLOWED :> "Method Not Allowed") @@
    (INTERNAL_SERVER_ERROR :> "Internal Server Error") @@
    (VERSION_NOT_SUPPORTED :> "HTTP Version Not Supported")

\* Response(code, headers=..., body=...); headers is an insertion-ordered
\* dict, modelled as a sequence of <<name, value>> pairs
Response(code, hdrs, body) == [code |-> code, headers |-> hdrs, body |-> body]

NoResponse == [code |-> 0, headers |-> <<>>, body |-> ""]

RECURSIVE HeaderLines(_)
HeaderLines(hdrs) ==
    IF Len(hdrs) = 0 THEN <<>>
    ELSE <<hdrs[1][1] \o ": " \o hdrs[1][2]>> \o HeaderLines(Tail(hdrs))

\* Response.__str__
ResponseStr(r) ==
    "HTTP/1.1 " \o NatToStr(r.code) \o " " \o STATUS_MESSAGES[r.code] \o "\n"
    \o Join(HeaderLines(r.headers), "\n")
    \o "\n\n" \o r.body

\* dict lookups on a headers mapping
HasHeader(hdrs, k) == \E i \in DOMAIN hdrs : hdrs[i][1] = k

HeaderValue(hdrs, k) == hdrs[CHOOSE i \in DOMAIN hdrs : hdrs[i][1] = k][2]

\* guess_content_type without its '.css' case
guess_content_type_NoCss(filename) ==
    IF EndsWith(filename, ".html") THEN "text/html" ELSE "text/plain"

\* guess_content_type
guess_content_type(filename) ==
    IF EndsWith(filename, ".html") THEN "text/html"
    ELSE IF EndsWith(filename, ".css") THEN "text/css"
    ELSE "text/plain"

\* ------------------------------------------------------------------------
\* Exceptions and the version parser
\* ------------------------------------------------------------------------

NoExc == [type |-> "", resp |-> NoResponse]

\* raise WebServerException(code): __init__ evaluates
\* Response.STATUS_MESSAGES[message] first; no name 'message' exists in
\* that scope, so the constructor itself raises NameError and the
\* WebServerException (with its resp) never comes into being
WebServerException(code) == [type |-> "NameError", resp |-> NoResponse]

\* _bad_request()
bad_request == WebServerException(BAD_REQUEST)

\* parse_http_ver: the exception raised, or the (major, minor) pair
parse_http_ver(http_ver) ==
    LET slash_split == Split(http_ver, "/")
    IN  IF Len(slash_split) # 2 THEN [exc |-> bad_request, ver |-> <<>>]
        ELSE IF slash_split[1] # "HTTP" THEN [exc |-> bad_request, ver |-> <<>>]
        ELSE LET dot_split == Split(slash_split[2], ".")
             IN  IF Len(dot_split) # 2 THEN [exc |-> bad_request, ver |-> <<>>]
                 ELSE LET maj == ParseInt(dot_split[1])
                          min == ParseInt(dot_split[2])
                      IN  IF maj.ok /\ min.ok
                          THEN [exc |-> NoExc, ver |-> <<maj.val, min.val>>]
                          ELSE [exc |-> bad_request, ver |-> <<>>]

\* ParseReqLine taking the first three fields of a longer line
ParseReqLine_FirstThree(requestLine) ==
    LET parts == Split(requestLine, " ")
    IN  IF Len(parts) < 3
        THEN [exc |-> bad_request, method |-> "", path |-> "", ver |-> <<>>]
        ELSE LET v == parse_http_ver(parts[3])
             IN  IF v.exc # NoExc
                 THEN [exc |-> v.exc, method |-> "", path |-> "", ver |-> <<>>]
                 ELSE [exc |-> NoExc, method |-> parts[1], path |-> parts[2],
                       ver |-> v.ver]

\* the part of _read_reqline after the first non-blank line was found
ParseReqLine(requestLine) ==
    LET parts == Split(requestLine, " ")
    IN  IF Len(parts) # 3
        THEN [exc |-> bad_request, method |-> "", path |-> "", ver |-> <<>>]
        ELSE LET v == parse_http_ver(parts[3])
             IN  IF v.exc # NoExc
                 THEN [exc |-> v.exc, method |-> "", path |-> "", ver |-> <<>>]
                 ELSE [exc |-> NoExc, method |-> parts[1], path |-> parts[2],
                       ver |-> v.ver]

\* ------------------------------------------------------------------------
\* Peers: what a client writes to its socket, line by line
\* ------------------------------------------------------------------------

Conns == {1, 2}

\* request paths of well-formed requests
Paths ==
    {"/", "/a.css", "/t.txt", "/d", "/d/", "/d/index.html", "/e/", "/f/",
     "/nope", "/../secret", "/d/../../secret", "//etc", "/..x", "/./d",
     "a.css", "xa.css", "dd"}

\* a complete request: request line, one header, blank line
Complete(reqline) == <<reqline \o CRLF, "Host: x" \o CRLF, CRLF>>

RECURSIVE Blanks(_)
Blanks(n) == IF n = 0 THEN <<>> ELSE <<CRLF>> \o Blanks(n - 1)

WellFormedStreams ==
    {Complete(m \o " " \o p \o " HTTP/1.1") : m \in {"GET", "HEAD"}, p \in Paths}
    \cup {Complete("POST " \o p \o " HTTP/1.1") : p \in {"/", "/d", "a.css", "/../secret"}}
    \cup {Blanks(n) \o Complete("GET /a.css HTTP/1.1") : n \in 1..MaxBlank}

\* request lines that do not parse
BadReqLines ==
    {"GET /", "GET / HTTP/1.1 x", "GET  / HTTP/1.1", "GET / HTTP/1",
     "GET / http/1.1", "GET / HTTP/1.1.1", "GET / HTTP/a.b", "GET / HTTP1.1",
     "GET / HTTP/1/1"}

\* request lines that parse, with a version other than 1.1
OtherVersionReqLines ==
    {"GET / HTTP/1.0", "GET /a.css HTTP/2.0", "POST / HTTP/0.9", "GET / HTTP/-1.0"}

\* header blocks after a good request line: duplicates, continuations,
\* a line without a colon, a continuation before any header, streams that
\* end early
HeaderBlocks ==
    {<<CRLF>>,
     <<"X-A: 1" \o CRLF, "X-A: 2" \o CRLF, CRLF>>,
     <<"X-A: 1" \o CRLF, " X-B" \o CRLF, CRLF>>,
     <<"X-A: 1" \o CRLF, "X-B: 2" \o CRLF, "X-A: 3" \o CRLF, "\tmore" \o CRLF, CRLF>>,
     <<"X-A: 1" \o CRLF, "X-B:2 " \o CRLF, "X-A:  3" \o CRLF, CRLF>>,
     <<"X-A 1" \o CRLF, CRLF>>,
     <<"X-A: 1" \o CRLF, "nocolon" \o CRLF, CRLF>>,
     <<" X-B: 1" \o CRLF, CRLF>>,
     <<"\tfold" \o CRLF, "X-A: 1" \o CRLF, CRLF>>,
     <<>>,
     <<"X-A: 1" \o CRLF>>}

Streams ==
    WellFormedStreams
    \cup {Complete(l) : l \in BadReqLines \cup OtherVersionReqLines}
    \cup {<<"GET /a.css HTTP/1.1" \o CRLF>> \o h : h \in HeaderBlocks}
    \cup {Blanks(n) : n \in 0..MaxBlank}

\* ------------------------------------------------------------------------
\* State
\* ------------------------------------------------------------------------

VARIABLES
    fs,          \* the filesystem layout
    pc,          \* where each connection's handler stands
    inp,         \* the lines the peer sent, as readline() returns them
    pos,         \* how many of them the handler has consumed
    eofReads,    \* reads that found the stream at its end
    reqline,     \* _read_request: the (method, path, version) it was given
    headers,     \* _read_headers: the mapping under construction
    last_header, \* _read_headers: <<>> for None, else <<name>>
    req,         \* the Request built by _read_request
    file_path,   \* _handle_request: the target path
    resp,        \* the Response _handle_request returned
    exc,         \* the exception in flight, then the one handle() re-raised
    out,         \* the texts written to the socket, in order
    fsCalls      \* the filesystem calls made for the connection

vars == <<fs, pc, inp, pos, eofReads, reqline, headers, last_header, req,
          file_path, resp, exc, out, fsCalls>>

NoReqLine == [method |-> "", path |-> "", ver |-> <<>>]

NoRequest == [method |-> "", path |-> "", http_version |-> <<>>, headers |-> <<>>]

Init ==
    /\ fs \in Layouts
    /\ pc = [c \in Conns |-> "idle"]
    /\ inp = [c \in Conns |-> <<>>]
    /\ pos = [c \in Conns |-> 0]
    /\ eofReads = [c \in Conns |-> 0]
    /\ reqline = [c \in Conns |-> NoReqLine]
    /\ headers = [c \in Conns |-> <<>>]
    /\ last_header = [c \in Conns |-> <<>>]
    /\ req = [c \in Conns |-> NoRequest]
    /\ file_path = [c \in Conns |-> ""]
    /\ resp = [c \in Conns |-> NoResponse]
    /\ exc = [c \in Conns |-> NoExc]
    /\ out = [c \in Conns |-> <<>>]
    /\ fsCalls = [c \in Conns |-> <<>>]

\* ------------------------------------------------------------------------
\* Reading from the socket
\* ------------------------------------------------------------------------

AtEof(c) == pos[c] >= Len(inp[c])

\* sio.readline(): the next line with its terminator, '' at end of stream
ReadLine(c) == IF AtEof(c) THEN "" ELSE inp[c][pos[c] + 1]

\* _recv_line
RecvLine(c) == RStripChars(ReadLine(c), {"\r", "\n"})

\* the effect of one readline() on the stream
Consume(c) ==
    IF AtEof(c)
    THEN /\ eofReads' = [eofReads EXCEPT ![c] = @ + 1]
         /\ pos' = pos
    ELSE /\ pos' = [pos EXCEPT ![c] = @ + 1]
         /\ eofReads' = eofReads

\* TCPServer serves one connection at a time: handle() of a connection
\* starts when the connections before it are finished
Accept(c) ==
    /\ pc[c] = "idle"
    /\ \A d \in Conns : d < c => pc[d] = "done"
    /\ \E s \in Streams : inp' = [inp EXCEPT ![c] = s]
    /\ pc' = [pc EXCEPT ![c] = "read_reqline"]
    /\ UNCHANGED <<fs, pos, eofReads, reqline, headers, last_header, req,
                   file_path, resp, exc, out, fsCalls>>

\* _read_request up to the headers: one turn of the loop of _read_reqline,
\* and, once a non-blank line came, the parsing of it and the version test
RecvReqLine(c) ==
    /\ pc[c] = "read_reqline"
    /\ AtEof(c) => eofReads[c] < MaxEofReads
    /\ Consume(c)
    /\ LET requestLine == RecvLine(c)
           r == ParseReqLine(requestLine)
       IN  IF requestLine = ""
           THEN UNCHANGED <<pc, reqline, exc>>
           ELSE IF r.exc # NoExc
           THEN /\ exc' = [exc EXCEPT ![c] = r.exc]
                /\ pc' = [pc EXCEPT ![c] = "except"]
                /\ reqline' = reqline
           ELSE /\ reqline' = [reqline EXCEPT ![c] =
                        [method |-> r.method, path |-> r.path, ver |-> r.ver]]
                /\ IF r.ver # <<1, 1>>
                   THEN /\ exc' = [exc EXCEPT ![c] =
                                     WebServerException(VERSION_NOT_SUPPORTED)]
                        /\ pc' = [pc EXCEPT ![c] = "except"]
                   ELSE /\ pc' = [pc EXCEPT ![c] = "read_headers"]
                        /\ exc' = exc
    /\ UNCHANGED <<fs, inp, headers, last_header, req, file_path, resp, out,
                   fsCalls>>

\* headers[name] += suffix
AppendToHeader(hdrs, name, suffix) ==
    [i \in DOMAIN hdrs |->
        IF hdrs[i][1] = name THEN <<name, hdrs[i][2] \o suffix>> ELSE hdrs[i]]

\* FoldContinuation appending the line as it came, untrimmed
FoldContinuation_Untrimmed(hdrs, name, line) ==
    AppendToHeader(hdrs, name, " " \o line)

\* a continuation line: headers[last_header] += ' ' + headerLine.strip()
FoldContinuation(hdrs, name, line) ==
    AppendToHeader(hdrs, name, " " \o Strip(line))

\* MergeHeader joining a repeated header the way Message.attach_header
\* does, with ', '
MergeHeader_CommaSpace(hdrs, name, value) ==
    IF HasHeader(hdrs, name)
    THEN AppendToHeader(hdrs, name, ", " \o Strip(value))
    ELSE Append(hdrs, <<name, Strip(value)>>)

\* a header line: a repeated name is merged, a new one is inserted
MergeHeader(hdrs, name, value) ==
    IF HasHeader(hdrs, name)
    THEN AppendToHeader(hdrs, name, "," \o Strip(value))
    ELSE Append(hdrs, <<name, Strip(value)>>)

\* RecvHeaderLine leaving last_header alone when the name of the line is
\* already in the mapping
RecvHeaderLine_StaleLastHeader(c) ==
    /\ pc[c] = "read_headers"
    /\ Consume(c)
    /\ LET headerLine == RecvLine(c)
       IN  IF Len(Strip(headerLine)) = 0
           THEN \* end of headers: _read_request builds the Request
                /\ req' = [req EXCEPT ![c] =
                        [method |-> reqline[c].method, path |-> reqline[c].path,
                         http_version |-> reqline[c].ver, headers |-> headers[c]]]
                /\ pc' = [pc EXCEPT ![c] = "handle_request"]
                /\ UNCHANGED <<headers, last_header, exc>>
           ELSE IF StartsWith(headerLine, " ") \/ StartsWith(headerLine, "\t")
           THEN IF last_header[c] = <<>>
                THEN /\ exc' = [exc EXCEPT ![c] = bad_request]
                     /\ pc' = [pc EXCEPT ![c] = "except"]
                     /\ UNCHANGED <<headers, last_header, req>>
                ELSE /\ headers' = [headers EXCEPT ![c] =
                            FoldContinuation(@, last_header[c][1], headerLine)]
                     /\ UNCHANGED <<pc, last_header, req, exc>>
           ELSE LET parts == SplitFirst(headerLine, ":")
                IN  IF Len(parts) # 2
                    THEN /\ exc' = [exc EXCEPT ![c] = bad_request]
                         /\ pc' = [pc EXCEPT ![c] = "except"]
                         /\ UNCHANGED <<headers, last_header, req>>
                    ELSE /\ last_header' = [last_header EXCEPT ![c] =
                                IF HasHeader(headers[c], parts[1])
                                THEN @ ELSE <<parts[1]>>]
                         /\ headers' = [headers EXCEPT ![c] =
                                MergeHeader(@, parts[1], parts[2])]
                         /\ UNCHANGED <<pc, req, exc>>
    /\ UNCHANGED <<fs, inp, reqline, file_path, resp, out, fsCalls>>

\* one turn of the loop of _read_headers
RecvHeaderLine(c) ==
    /\ pc[c] = "read_headers"
    /\ Consume(c)
    /\ LET headerLine == RecvLine(c)
       IN  IF Len(Strip(headerLine)) = 0
           THEN \* end of headers: _read_request builds the Request
                /\ req' = [req EXCEPT ![c] =
                        [method |-> reqline[c].method, path |-> reqline[c].path,
                         http_version |-> reqline[c].ver, headers |-> headers[c]]]
                /\ pc' = [pc EXCEPT ![c] = "handle_request"]
                /\ UNCHANGED <<headers, last_header, exc>>
           ELSE IF StartsWith(headerLine, " ") \/ StartsWith(headerLine, "\t")
           THEN IF last_header[c] = <<>>
                THEN /\ exc' = [exc EXCEPT ![c] = bad_request]
                     /\ pc' = [pc EXCEPT ![c] = "except"]
                     /\ UNCHANGED <<headers, last_header, req>>
                ELSE /\ headers' = [headers EXCEPT ![c] =
                            FoldContinuation(@, last_header[c][1], headerLine)]
                     /\ UNCHANGED <<pc, last_header, req, exc>>
           ELSE LET parts == SplitFirst(headerLine, ":")
                IN  IF Len(parts) # 2
                    THEN /\ exc' = [exc EXCEPT ![c] = bad_request]
                         /\ pc' = [pc EXCEPT ![c] = "except"]
                         /\ UNCHANGED <<headers, last_header, req>>
                    ELSE /\ last_header' = [last_header EXCEPT ![c] = <<parts[1]>>]
                         /\ headers' = [headers EXCEPT ![c] =
                                MergeHeader(@, parts[1], parts[2])]
                         /\ UNCHANGED <<pc, req, exc>>
    /\ UNCHANGED <<fs, inp, reqline, file_path, resp, out, fsCalls>>

\* ------------------------------------------------------------------------
\* _handle_request
\* ------------------------------------------------------------------------

\* os.path.normpath(req.path[1:])
LocalPath(path) == NormPath(SubSeq(path, 2, Len(path)))

\* IsLocalAbsolute without its test: every path is taken for absolute
IsLocalAbsolute_Any(path) == TRUE

\* only local, absolute URLs are valid
IsLocalAbsolute(path) == StartsWith(path, "/")

\* RisesAboveRoot testing for an absolute path only
RisesAboveRoot_SlashOnly(local_path) == StartsWith(local_path, "/")

\* the test that keeps the target under the web root
RisesAboveRoot(local_path) ==
    StartsWith(local_path, "/") \/ StartsWith(local_path, "..")

\* the response to a request whose method is not served
MethodNotAllowed == Response(METHOD_NOT_ALLOWED, <<>>, "")

\* Redirect pointing at the normalised path instead of the path received
Redirect_Normalised(path) ==
    Response(MOVED_PERMANENTLY, <<<<"Location", "/" \o LocalPath(path) \o "/">>>>, "")

\* the response to a directory requested without its trailing slash
Redirect(path) == Response(MOVED_PERMANENTLY, <<<<"Location", path \o "/">>>>, "")

\* FileResponse that includes the body whatever the method
FileResponse_AlwaysBody(path, data, includeBody) ==
    Response(OK,
             <<<<"Content-Type",
                 guess_content_type(BaseName(path)) \o "; charset=utf-8">>>>,
             data)

\* the response that serves a file
FileResponse(path, data, includeBody) ==
    Response(OK,
             <<<<"Content-Type",
                 guess_content_type(BaseName(path)) \o "; charset=utf-8">>>>,
             IF includeBody THEN data ELSE "")

Return(c, r) ==
    /\ resp' = [resp EXCEPT ![c] = r]
    /\ pc' = [pc EXCEPT ![c] = "send"]

\* the checks made before the filesystem is consulted
CheckRequest(c) ==
    /\ pc[c] = "handle_request"
    /\ IF req[c].method \notin {"GET", "HEAD"}
       THEN Return(c, MethodNotAllowed) /\ file_path' = file_path
       ELSE IF ~IsLocalAbsolute(req[c].path)
       THEN Return(c, Response(NOT_FOUND, <<>>, "")) /\ file_path' = file_path
       ELSE IF RisesAboveRoot(LocalPath(req[c].path))
       THEN Return(c, Response(NOT_FOUND, <<>>, "")) /\ file_path' = file_path
       ELSE /\ file_path' = [file_path EXCEPT ![c] =
                                PathJoin(WEB_ROOT, LocalPath(req[c].path))]
            /\ pc' = [pc EXCEPT ![c] = "isdir"]
            /\ resp' = resp
    /\ UNCHANGED <<fs, inp, pos, eofReads, reqline, headers, last_header, req,
                   exc, out, fsCalls>>

\* if os.path.isdir(file_path): redirect, or go on to index.html
TestIsDir(c) ==
    /\ pc[c] = "isdir"
    /\ fsCalls' = [fsCalls EXCEPT ![c] = Append(@, <<"isdir", file_path[c]>>)]
    /\ IF IsDirPath(fs, file_path[c])
       THEN IF ~EndsWith(req[c].path, "/")
            THEN Return(c, Redirect(req[c].path)) /\ file_path' = file_path
            ELSE /\ file_path' = [file_path EXCEPT ![c] = PathJoin(@, "index.html")]
                 /\ pc' = [pc EXCEPT ![c] = "exists"]
                 /\ resp' = resp
       ELSE /\ pc' = [pc EXCEPT ![c] = "exists"]
            /\ UNCHANGED <<file_path, resp>>
    /\ UNCHANGED <<fs, inp, pos, eofReads, reqline, headers, last_header, req,
                   exc, out>>

\* if not os.path.exists(file_path): not found
TestExists(c) ==
    /\ pc[c] = "exists"
    /\ fsCalls' = [fsCalls EXCEPT ![c] = Append(@, <<"exists", file_path[c]>>)]
    /\ IF ~ExistsPath(fs, file_path[c])
       THEN Return(c, Response(NOT_FOUND, <<>>, ""))
       ELSE /\ pc' = [pc EXCEPT ![c] = "open"]
            /\ resp' = resp
    /\ UNCHANGED <<fs, inp, pos, eofReads, reqline, headers, last_header, req,
                   file_path, exc, out>>

\* open, read, close, and the 200 response; an exception of open()
\* leaves _handle_request
ReadFile(c) ==
    /\ pc[c] = "open"
    /\ fsCalls' = [fsCalls EXCEPT ![c] = Append(@, <<"open", file_path[c]>>)]
    /\ LET f == OpenRead(fs, file_path[c])
       IN  IF f.exc # ""
           THEN /\ exc' = [exc EXCEPT ![c] = [type |-> f.exc, resp |-> NoResponse]]
                /\ pc' = [pc EXCEPT ![c] = "except"]
                /\ resp' = resp
           ELSE /\ Return(c, FileResponse(file_path[c], f.data,
                                          req[c].method = "GET"))
                /\ exc' = exc
    /\ UNCHANGED <<fs, inp, pos, eofReads, reqline, headers, last_header, req,
                   file_path, out>>

\* ------------------------------------------------------------------------
\* handle
\* ------------------------------------------------------------------------

RECURSIVE TranslateFrom(_, _)
\* the translation of text from its i-th character on
TranslateFrom(text, i) ==
    IF i > Len(text) THEN ""
    ELSE (IF Char(text, i) = "\n" THEN CRLF ELSE Char(text, i))
         \o TranslateFrom(text, i + 1)

\* what SocketBuffer.write puts on the wire: the TextIOWrapper was made
\* with newline='\r\n', so every '\n' written is sent as '\r\n'
Translate(text) == TranslateFrom(text, 1)

\* _send; out holds what reaches the peer
Send(c, text) == out' = [out EXCEPT ![c] = Append(@, Translate(text))]

\* _send_line
SendLine(c, text) == Send(c, text \o "\n")

\* SendResponse reading the response from a place the handlers share
SendResponse_Shared(c) ==
    /\ pc[c] = "send"
    /\ \E d \in Conns : resp[d] # NoResponse /\ Send(c, ResponseStr(resp[d]))
    /\ pc' = [pc EXCEPT ![c] = "finish"]
    /\ UNCHANGED <<fs, inp, pos, eofReads, reqline, headers, last_header, req,
                   file_path, resp, exc, fsCalls>>

\* self._send(str(resp))
SendResponse(c) ==
    /\ pc[c] = "send"
    /\ Send(c, ResponseStr(resp[c]))
    /\ pc' = [pc EXCEPT ![c] = "finish"]
    /\ UNCHANGED <<fs, inp, pos, eofReads, reqline, headers, last_header, req,
                   file_path, resp, exc, fsCalls>>

\* the except clauses of handle: a WebServerException is answered with its
\* own response; anything else with the 500 line, and is raised again
HandleException(c) ==
    /\ pc[c] = "except"
    /\ IF exc[c].type = "WebServerException"
       THEN /\ Send(c, ResponseStr(exc[c].resp))
            /\ exc' = [exc EXCEPT ![c] = NoExc]
       ELSE /\ SendLine(c, "HTTP/1.1 500 Internal Server Error")
            /\ exc' = exc
    /\ pc' = [pc EXCEPT ![c] = "finish"]
    /\ UNCHANGED <<fs, inp, pos, eofReads, reqline, headers, last_header, req,
                   file_path, resp, fsCalls>>

\* Finish writing the error line of the bare except clause as well
Finish_ErrorLine(c) ==
    /\ pc[c] = "finish"
    /\ SendLine(c, "HTTP/1.1 500 Internal Server Error")
    /\ pc' = [pc EXCEPT ![c] = "done"]
    /\ UNCHANGED <<fs, inp, pos, eofReads, reqline, headers, last_header, req,
                   file_path, resp, exc, fsCalls>>

\* the finally clause: _finish
Finish(c) ==
    /\ pc[c] = "finish"
    /\ SendLine(c, "")
    /\ pc' = [pc EXCEPT ![c] = "done"]
    /\ UNCHANGED <<fs, inp, pos, eofReads, reqline, headers, last_header, req,
                   file_path, resp, exc, fsCalls>>

Next ==
    \E c \in Conns :
        \/ Accept(c)
        \/ RecvReqLine(c)
        \/ RecvHeaderLine(c)
        \/ CheckRequest(c)
        \/ TestIsDir(c)
        \/ TestExists(c)
        \/ ReadFile(c)
        \/ SendResponse(c)
        \/ HandleException(c)
        \/ Finish(c)

Spec == Init /\ [][Next]_vars

\* ------------------------------------------------------------------------
\* The same handler invoked from independent threads, one per connection
\* ------------------------------------------------------------------------

\* the peers of the concurrent connections: one stream for each outcome
ConcStreams ==
    {Complete(l) : l \in {"GET /a.css HTTP/1.1", "HEAD /d/ HTTP/1.1",
                          "GET /d HTTP/1.1", "GET /nope HTTP/1.1",
                          "GET /f/ HTTP/1.1", "POST / HTTP/1.1",
                          "GET / HTTP/1.0", "GET /"}}
    \cup {<<"GET /a.css HTTP/1.1" \o CRLF>> \o h :
            h \in {<<"X-A: 1" \o CRLF, "X-B: 2" \o CRLF, "X-A: 3" \o CRLF,
                     "\tmore" \o CRLF, CRLF>>,
                   <<" X-B: 1" \o CRLF, CRLF>>,
                   <<"X-A: 1" \o CRLF>>}}
    \cup {<<CRLF>>}

\* handle() starts for a connection whatever the other handlers are doing
AcceptConc(c) ==
    /\ pc[c] = "idle"
    /\ \E s \in ConcStreams : inp' = [inp EXCEPT ![c] = s]
    /\ pc' = [pc EXCEPT ![c] = "read_reqline"]
    /\ UNCHANGED <<fs, pos, eofReads, reqline, headers, last_header, req,
                   file_path, resp, exc, out, fsCalls>>

NextConc ==
    \E c \in Conns :
        \/ AcceptConc(c)
        \/ RecvReqLine(c)
        \/ RecvHeaderLine(c)
        \/ CheckRequest(c)
        \/ TestIsDir(c)
        \/ TestExists(c)
        \/ ReadFile(c)
        \/ SendResponse(c)
        \/ HandleException(c)
        \/ Finish(c)

SpecConc == Init /\ [][NextConc]_vars

\* ------------------------------------------------------------------------
\* The handler beside another actor that removes files from the filesystem
\* ------------------------------------------------------------------------

\* the peers of these connections: requests the resolver takes to the
\* filesystem
FsStreams ==
    {Complete(m \o " " \o p \o " HTTP/1.1") :
        m \in {"GET", "HEAD"}, p \in {"/", "/a.css", "/d", "/d/", "/nope"}}

\* handle() starts for a connection when the connections before it are
\* finished
AcceptFs(c) ==
    /\ pc[c] = "idle"
    /\ \A d \in Conns : d < c => pc[d] = "done"
    /\ \E s \in FsStreams : inp' = [inp EXCEPT ![c] = s]
    /\ pc' = [pc EXCEPT ![c] = "read_reqline"]
    /\ UNCHANGED <<fs, pos, eofReads, reqline, headers, last_header, req,
                   file_path, resp, exc, out, fsCalls>>

\* the paths the layouts name under the web root
SitePaths == {p \in UNION {DOMAIN L : L \in Layouts} : StartsWith(p, WEB_ROOT)}

\* another process unlinks a file of the site, at any moment
RemoveFile(p) ==
    /\ p \in DOMAIN fs
    /\ fs[p].kind = "file"
    /\ fs' = [q \in DOMAIN fs \ {p} |-> fs[q]]
    /\ UNCHANGED <<pc, inp, pos, eofReads, reqline, headers, last_header, req,
                   file_path, resp, exc, out, fsCalls>>

\* the steps of the handler of connection c
HandlerStep(c) ==
    \/ RecvReqLine(c)
    \/ RecvHeaderLine(c)
    \/ CheckRequest(c)
    \/ TestIsDir(c)
    \/ TestExists(c)
    \/ ReadFile(c)
    \/ SendResponse(c)
    \/ HandleException(c)
    \/ Finish(c)

NextFs ==
    \/ \E c \in Conns : AcceptFs(c)
    \/ \E c \in Conns : HandlerStep(c)
    \/ \E p \in SitePaths : RemoveFile(p)

SpecFs == Init /\ [][NextFs]_vars

\* ------------------------------------------------------------------------
\* handle() as a function of one peer's stream and the layout: what the
\* handler writes when nothing else runs
\* ------------------------------------------------------------------------

RECURSIVE ReadHeadersFrom(_, _, _, _)
\* _read_headers on the lines of stream from line i on
ReadHeadersFrom(stream, i, hdrs, last) ==
    LET headerLine == IF i > Len(stream) THEN ""
                      ELSE RStripChars(stream[i], {"\r", "\n"})
    IN  IF Len(Strip(headerLine)) = 0 THEN [exc |-> NoExc, headers |-> hdrs]
        ELSE IF StartsWith(headerLine, " ") \/ StartsWith(headerLine, "\t")
        THEN IF last = <<>> THEN [exc |-> bad_request, headers |-> <<>>]
             ELSE ReadHeadersFrom(stream, i + 1,
                                  FoldContinuation(hdrs, last[1], headerLine), last)
        ELSE LET parts == SplitFirst(headerLine, ":")
             IN  IF Len(parts) # 2 THEN [exc |-> bad_request, headers |-> <<>>]
                 ELSE ReadHeadersFrom(stream, i + 1,
                                      MergeHeader(hdrs, parts[1], parts[2]),
                                      <<parts[1]>>)

\* _handle_request over a layout that does not change
HandleRequestIn(f, method, path) ==
    IF method \notin {"GET", "HEAD"} THEN [exc |-> NoExc, resp |-> MethodNotAllowed]
    ELSE IF ~IsLocalAbsolute(path)
    THEN [exc |-> NoExc, resp |-> Response(NOT_FOUND, <<>>, "")]
    ELSE IF RisesAboveRoot(LocalPath(path))
    THEN [exc |-> NoExc, resp |-> Response(NOT_FOUND, <<>>, "")]
    ELSE LET target == PathJoin(WEB_ROOT, LocalPath(path))
             isdir  == IsDirPath(f, target)
             final  == IF isdir THEN PathJoin(target, "index.html") ELSE target
             opened == OpenRead(f, final)
         IN  IF isdir /\ ~EndsWith(path, "/")
             THEN [exc |-> NoExc, resp |-> Redirect(path)]
             ELSE IF ~ExistsPath(f, final)
             THEN [exc |-> NoExc, resp |-> Response(NOT_FOUND, <<>>, "")]
             ELSE IF opened.exc # ""
             THEN [exc |-> [type |-> opened.exc, resp |-> NoResponse],
                   resp |-> NoResponse]
             ELSE [exc |-> NoExc,
                   resp |-> FileResponse(final, opened.data, method = "GET")]

\* what handle() writes once an exception left the try block
ExceptionOut(e) ==
    IF e.type = "WebServerException"
    THEN <<Translate(ResponseStr(e.resp)), Translate("\n")>>
    ELSE <<Translate("HTTP/1.1 500 Internal Server Error" \o "\n"), Translate("\n")>>

\* what handle() writes for a stream that holds a non-blank line
HandledAlone(stream, f) ==
    LET first == CHOOSE i \in DOMAIN stream :
                     /\ RStripChars(stream[i], {"\r", "\n"}) # ""
                     /\ \A j \in 1..(i - 1) : RStripChars(stream[j], {"\r", "\n"}) = ""
        r == ParseReqLine(RStripChars(stream[first], {"\r", "\n"}))
        h == ReadHeadersFrom(stream, first + 1, <<>>, <<>>)
        a == HandleRequestIn(f, r.method, r.path)
    IN  IF r.exc # NoExc THEN ExceptionOut(r.exc)
        ELSE IF r.ver # <<1, 1>>
        THEN ExceptionOut(WebServerException(VERSION_NOT_SUPPORTED))
        ELSE IF h.exc # NoExc THEN ExceptionOut(h.exc)
        ELSE IF a.exc # NoExc THEN ExceptionOut(a.exc)
        ELSE <<Translate(ResponseStr(a.resp)), Translate("\n")>>

\* ------------------------------------------------------------------------
\* Properties
\* ------------------------------------------------------------------------

\* _handle_request was called for connection c and has left its first checks
Resolving(c) == req[c] # NoRequest /\ pc[c] # "handle_request"

\* _handle_request has returned a Response for connection c
Returned(c) == Resolving(c) /\ pc[c] \in {"send", "finish", "done"}

ServedMethod(c) == req[c].method \in {"GET", "HEAD"}

\* the request path without its leading '/', normalised
Candidate(path) ==
    NormPath(IF StartsWith(path, "/") THEN SubSeq(path, 2, Len(path)) ELSE path)

\* the normalised candidate leaves the web root
Escapes(path) ==
    LET n == Candidate(path)
    IN  (Len(n) >= 1 /\ Char(n, 1) = "/") \/ (Len(n) >= 2 /\ SubSeq(n, 1, 2) = "..")

\* C1: a GET or HEAD request whose normalised candidate starts with a
\* separator or with '..' is answered 404 (so never 200 or 301) and no
\* filesystem call is made for it
C1_EscapingPathIs404 ==
    \A c \in Conns :
        (Resolving(c) /\ ServedMethod(c) /\ Escapes(req[c].path))
        => /\ Returned(c)
           /\ resp[c].code = NOT_FOUND
           /\ fsCalls[c] = <<>>

\* a traversal towards a file that exists outside the root was answered
C1_Witness ==
    \E c \in Conns :
        /\ pc[c] = "done"
        /\ req[c].method = "GET"
        /\ req[c].path = "/d/../../secret"
        /\ Lookup(fs, "secret").kind = "file"
        /\ resp[c].code = NOT_FOUND

\* C2: a request whose method is neither GET nor HEAD is answered 405 with
\* the header 'Allow: GET, HEAD', and no filesystem call is made for it
C2_OtherMethodIs405WithAllow ==
    \A c \in Conns :
        (Resolving(c) /\ ~ServedMethod(c))
        => /\ Returned(c)
           /\ resp[c].code = METHOD_NOT_ALLOWED
           /\ HasHeader(resp[c].headers, "Allow")
           /\ HeaderValue(resp[c].headers, "Allow") = "GET, HEAD"
           /\ fsCalls[c] = <<>>

\* C3: a GET or HEAD request whose path does not start with '/' is
\* answered 404
C3_RelativePathIs404 ==
    \A c \in Conns :
        (Resolving(c) /\ ServedMethod(c) /\ ~StartsWith(req[c].path, "/"))
        => /\ Returned(c)
           /\ resp[c].code = NOT_FOUND

\* a relative path whose tail names an existing directory was answered
C3_Witness ==
    \E c \in Conns :
        /\ pc[c] = "done"
        /\ req[c].method = "HEAD"
        /\ req[c].path = "dd"
        /\ IsDirPath(fs, "www/d")
        /\ resp[c].code = NOT_FOUND

\* the texts written for connection c that begin a response
ResponseStarts(c) == {i \in DOMAIN out[c] : StartsWith(out[c][i], "HTTP/")}

NumResponses(c) == Cardinality(ResponseStarts(c))

\* the status code on the wire of the first text written for connection c
SentStatus(c) == SubSeq(out[c][1], 10, 12)

\* the handler of connection c left the parser by an exception raised for
\* a request line or a header line it could not parse
ParseFailed(c) ==
    /\ req[c] = NoRequest
    /\ pc[c] \in {"except", "finish", "done"}
    /\ (reqline[c] = NoReqLine \/ reqline[c].ver = <<1, 1>>)

\* the request line of connection c parsed, with a version other than 1.1
UnsupportedVersion(c) == reqline[c] # NoReqLine /\ reqline[c].ver # <<1, 1>>

\* C4: every parse failure of the request makes the handler send a
\* response with status 400 and no other
C4_ParseFailureIs400 ==
    \A c \in Conns :
        (pc[c] = "done" /\ ParseFailed(c))
        => /\ NumResponses(c) = 1
           /\ StartsWith(out[c][1], "HTTP/1.1 400 Bad Request")

\* C5: a well-formed request line with a version other than HTTP/1.1 stops
\* request construction before the header block (nothing after the request
\* line is consumed), the outcome is the 'unsupported version' exception
\* carrying a 505 response, and the response sent has status 505
C5_OtherVersionIs505 ==
    \A c \in Conns :
        UnsupportedVersion(c)
        => /\ \A i \in 1..(pos[c] - 1) : RStripChars(inp[c][i], {"\r", "\n"}) = ""
           /\ req[c] = NoRequest
           /\ pc[c] = "except"
              => exc[c] = [type |-> "WebServerException",
                           resp |-> Response(VERSION_NOT_SUPPORTED, <<>>, "")]
           /\ pc[c] = "done"
              => (NumResponses(c) = 1 /\ SentStatus(c) = "505")

\* C6: a connection's handler parses once and writes exactly one response:
\* it never returns to the request line, never writes a second status
\* line, and when it is done it has written one
C6_OneResponsePerConnection ==
    [][\A c \in Conns :
          /\ pc[c] \notin {"idle", "read_reqline"} => pc'[c] # "read_reqline"
          /\ pc[c] \notin {"idle", "read_reqline", "read_headers"}
                => pc'[c] # "read_headers"
          /\ NumResponses(c)' <= 1
          /\ pc'[c] = "done"
                => (NumResponses(c)' = 1 /\ ResponseStarts(c)' = {1})]_vars

\* one connection was answered after a parse failure and the next after
\* a file was served
C6_Witness ==
    /\ pc[1] = "done" /\ ParseFailed(1) /\ NumResponses(1) = 1
    /\ pc[2] = "done" /\ resp[2].code = OK /\ NumResponses(2) = 1

\* C7: when the stream ends before any non-blank line was read, the
\* request-line reader reads no further and no response is sent
C7_ReaderStopsAtEndOfStream ==
    \A c \in Conns :
        (reqline[c] = NoReqLine /\ exc[c] = NoExc /\ eofReads[c] >= 1)
        => /\ eofReads[c] = 1
           /\ out[c] = <<>>

\* C8: a GET or HEAD request for a contained directory, with a path that
\* does not end with '/', is answered 301 with Location = the path as
\* received followed by '/', and index.html is not looked up
C8_DirectoryWithoutSlashIs301 ==
    \A c \in Conns :
        (/\ Resolving(c) /\ ServedMethod(c)
         /\ StartsWith(req[c].path, "/") /\ ~Escapes(req[c].path)
         /\ IsDirPath(fs, "www/" \o Candidate(req[c].path))
         /\ ~EndsWith(req[c].path, "/")
         /\ pc[c] # "isdir")
        => /\ Returned(c)
           /\ resp[c] = [code |-> MOVED_PERMANENTLY,
                         headers |-> <<<<"Location", req[c].path \o "/">>>>,
                         body |-> ""]
           /\ \A i \in DOMAIN fsCalls[c] : ~EndsWith(fsCalls[c][i][2], "index.html")

\* a directory was requested by a path that is not in normal form
C8_Witness ==
    \E c \in Conns :
        /\ pc[c] = "done"
        /\ req[c].method = "GET"
        /\ req[c].path = "/./d"
        /\ IsDirPath(fs, "www/d")
        /\ resp[c].code = MOVED_PERMANENTLY

\* the file a contained request ends at: index.html under a directory
FinalTarget(path) ==
    LET t == "www/" \o Candidate(path)
    IN  IF IsDirPath(fs, t) THEN t \o "/index.html" ELSE t

\* C9: a GET request that is not redirected is decided by its final target
\* (<target>/index.html under a directory): 404 if it does not exist,
\* otherwise 200 with the file's content as body; the resolver never
\* fails instead
C9_GetIsDecidedByFinalTarget ==
    \A c \in Conns :
        (/\ req[c] # NoRequest /\ req[c].method = "GET"
         /\ StartsWith(req[c].path, "/") /\ ~Escapes(req[c].path)
         /\ ~(IsDirPath(fs, "www/" \o Candidate(req[c].path))
              /\ ~EndsWith(req[c].path, "/"))
         /\ pc[c] \in {"except", "send", "finish", "done"})
        => /\ Returned(c)
           /\ IF ExistsPath(fs, FinalTarget(req[c].path))
              THEN /\ resp[c].code = OK
                   /\ resp[c].body = Lookup(fs, FinalTarget(req[c].path)).data
              ELSE resp[c].code = NOT_FOUND

\* C10: over the same layout, HEAD is answered with the status of GET for
\* the same path, and when that is 200 with an empty body and the
\* Content-Type of the GET response
C10_HeadMatchesGet ==
    \A c \in Conns : \A d \in Conns :
        (/\ pc[c] = "done" /\ pc[d] = "done"
         /\ req[c] # NoRequest /\ req[d] # NoRequest
         /\ req[c].method = "GET" /\ req[d].method = "HEAD"
         /\ req[c].path = req[d].path)
        => /\ resp[c].code = resp[d].code
           /\ SentStatus(c) = SentStatus(d)
           /\ resp[c].code = OK
              => /\ resp[d].body = ""
                 /\ HasHeader(resp[c].headers, "Content-Type")
                 /\ HasHeader(resp[d].headers, "Content-Type")
                 /\ HeaderValue(resp[d].headers, "Content-Type")
                        = HeaderValue(resp[c].headers, "Content-Type")

\* a file with content was served to GET and then to HEAD
C10_Witness ==
    \E c \in Conns : \E d \in Conns :
        /\ pc[c] = "done" /\ pc[d] = "done"
        /\ req[c].method = "GET" /\ req[d].method = "HEAD"
        /\ req[c].path = "/a.css" /\ req[d].path = "/a.css"
        /\ resp[c].code = OK /\ resp[c].body # ""
        /\ resp[d].code = OK

\* the Content-Type the suffix of a file name calls for
TypeOfName(name) ==
    IF Len(name) >= 5 /\ SubSeq(name, Len(name) - 4, Len(name)) = ".html"
    THEN "text/html"
    ELSE IF Len(name) >= 4 /\ SubSeq(name, Len(name) - 3, Len(name)) = ".css"
    THEN "text/css"
    ELSE "text/plain"

C12_ContentLengthIsBodyLength ==
    \A c \in Conns :
        (Returned(c) /\ resp[c].code = OK)
        => /\ HasHeader(resp[c].headers, "Content-Length")
           /\ HeaderValue(resp[c].headers, "Content-Length")
                  = NatToStr(Len(resp[c].body))

\* the lines of the head of a text on the wire, without their terminators
WireLines(text) ==
    LET ls == Split(text, "\n")
    IN  [i \in DOMAIN ls |-> RStripChars(ls[i], {"\r"})]

\* C13: every response written to the peer carries the header
\* 'Connection: close' and a 'Date' header
C13_ConnectionCloseAndDate ==
    \A c \in Conns : \A i \in ResponseStarts(c) :
        LET ls == WireLines(out[c][i])
        IN  /\ \E k \in DOMAIN ls : ls[k] = "Connection: close"
            /\ \E k \in DOMAIN ls : StartsWith(ls[k], "Date: ")

\* line i of what the peer of connection c sent, without its terminator
PeerLine(c, i) == RStripChars(inp[c][i], {"\r", "\n"})

\* the index of the request line: the first line that is not empty
ReqLineIndex(c) ==
    CHOOSE i \in DOMAIN inp[c] :
        PeerLine(c, i) # "" /\ \A j \in 1..(i - 1) : PeerLine(c, j) = ""

\* a line of a header block that continues the header before it
IsContinuation(line) ==
    Len(line) >= 1 /\ Char(line, 1) \in {" ", "\t"} /\ Strip(line) # ""

\* the name and the trimmed value of a header line
NameOf(line) == SubSeq(line, 1, FindFrom(line, ":", 1) - 1)

ValueOf(line) == Strip(SubSeq(line, FindFrom(line, ":", 1) + 1, Len(line)))

\* the lines of the header block that connection c has consumed, up to
\* and without the line that ended it
ConsumedHeaderLines(c) ==
    LET first == ReqLineIndex(c) + 1
        ends  == {i \in first..pos[c] : Strip(PeerLine(c, i)) = ""}
        last  == IF ends = {} THEN pos[c]
                 ELSE (CHOOSE i \in ends : \A j \in ends : i <= j) - 1
    IN  [k \in 1..(last - first + 1) |-> PeerLine(c, first + k - 1)]

RECURSIVE DistinctNames(_, _)
\* the names of header lines in the order of their first appearance
DistinctNames(lines, seen) ==
    IF Len(lines) = 0 THEN seen
    ELSE DistinctNames(Tail(lines),
                       IF \E k \in DOMAIN seen : seen[k] = NameOf(Head(lines))
                       THEN seen ELSE Append(seen, NameOf(Head(lines))))

\* the trimmed values of the header lines named n, in wire order
ValuesNamed(lines, n) ==
    LET Named(l) == NameOf(l) = n
        sel == SelectSeq(lines, Named)
    IN  [k \in DOMAIN sel |-> ValueOf(sel[k])]

\* the mapping a block of header lines without continuations stands for
MergedHeaders(lines) ==
    LET names == DistinctNames(lines, <<>>)
    IN  [k \in DOMAIN names |-> <<names[k], Join(ValuesNamed(lines, names[k]), ",")>>]

\* C14: in the mapping of a parsed request, a name that came on several
\* header lines has one entry, its value the trimmed values of those lines
\* in wire order joined with ',' and no space; names stand in the order of
\* their first appearance
C14_DuplicateHeadersMerged ==
    \A c \in Conns :
        (/\ req[c] # NoRequest
         /\ \A k \in DOMAIN ConsumedHeaderLines(c) :
                ~IsContinuation(ConsumedHeaderLines(c)[k]))
        => req[c].headers = MergedHeaders(ConsumedHeaderLines(c))

\* a name came twice with another name in between, with blanks to trim
C14_Witness ==
    \E c \in Conns :
        /\ pc[c] = "done"
        /\ req[c].headers = << <<"X-A", "1,3">>, <<"X-B", "2">> >>

\* the name of the header line seen last among the lines consumed
LastSeenName(lines) ==
    LET hs == {k \in DOMAIN lines : ~IsContinuation(lines[k])}
    IN  NameOf(lines[CHOOSE k \in hs : \A j \in hs : j <= k])

HasReqLine(c) == \E i \in 1..pos[c] : PeerLine(c, i) # ""

\* the fields of the request line of connection c
ReqLineFields(c) == Split(PeerLine(c, ReqLineIndex(c)), " ")

\* C16: when the stream ends inside the header block, before a blank line,
\* header parsing fails: the headers gathered so far are not returned as a
\* parsed block, no Request is built and nothing is resolved
C16_EofInHeadersFails ==
    \A c \in Conns :
        (reqline[c] # NoReqLine /\ reqline[c].ver = <<1, 1>> /\ eofReads[c] >= 1)
        => /\ pc[c] \in {"except", "finish", "done"}
           /\ req[c] = NoRequest
           /\ resp[c] = NoResponse
           /\ fsCalls[c] = <<>>

IsVersionNumber(s) == ParseInt(s).ok /\ ParseInt(s).val >= 0

\* a version token that is not 'HTTP/' followed by two non-negative
\* integers separated by one '.'
MalformedToken(tok) ==
    \/ Len(tok) < 5
    \/ SubSeq(tok, 1, 5) # "HTTP/"
    \/ LET comps == Split(SubSeq(tok, 6, Len(tok)), ".")
       IN  \/ Len(comps) # 2
           \/ \E k \in DOMAIN comps : ~IsVersionNumber(comps[k])

\* C18: a version token with a missing or wrongly-cased 'HTTP/' prefix,
\* other than two '.'-separated components, a non-integer or a negative
\* component never parses to a version value: the request is malformed,
\* not one of an unsupported version
C18_MalformedVersionFails ==
    \A c \in Conns :
        (/\ HasReqLine(c) /\ Len(ReqLineFields(c)) = 3
         /\ MalformedToken(ReqLineFields(c)[3]))
        => /\ pc[c] \in {"except", "finish", "done"}
           /\ exc[c] = bad_request
           /\ reqline[c] = NoReqLine
           /\ ~UnsupportedVersion(c)

RECURSIVE WireHeaders(_)
\* each header as 'Name: Value' followed by a line terminator
WireHeaders(hdrs) ==
    IF Len(hdrs) = 0 THEN ""
    ELSE hdrs[1][1] \o ": " \o hdrs[1][2] \o CRLF \o WireHeaders(Tail(hdrs))

\* a response as the claim renders it: status line, headers, one blank
\* line, body
Rendered(r) ==
    "HTTP/1.1 " \o NatToStr(r.code) \o " " \o STATUS_MESSAGES[r.code] \o CRLF
    \o WireHeaders(r.headers) \o CRLF \o r.body

\* C19: the rendering of a response, also of one without headers, is the
\* status line and a terminator, each header and a terminator, exactly
\* one blank line, then the body, with nothing between the two
C19_RenderedExactly ==
    \A c \in Conns :
        (Returned(c) /\ pc[c] \in {"finish", "done"})
        => out[c][1] = Rendered(resp[c])

\* C20: handlers running concurrently do not touch each other: a step
\* changes the state of one connection only, and a connection that is done
\* has received what its handler writes when it runs alone
C20_SameAsAlone ==
    [][/\ \E c \in Conns : \A d \in Conns \ {c} :
              /\ pc'[d] = pc[d] /\ inp'[d] = inp[d] /\ pos'[d] = pos[d]
              /\ eofReads'[d] = eofReads[d] /\ reqline'[d] = reqline[d]
              /\ headers'[d] = headers[d] /\ last_header'[d] = last_header[d]
              /\ req'[d] = req[d] /\ file_path'[d] = file_path[d]
              /\ resp'[d] = resp[d] /\ exc'[d] = exc[d] /\ out'[d] = out[d]
              /\ fsCalls'[d] = fsCalls[d]
       /\ fs' = fs
       /\ \A c \in Conns :
              pc'[c] = "done" => out'[c] = HandledAlone(inp'[c], fs')]_vars

\* two handlers stand between their response and their final newline at
\* the same time, with different responses
C20_Witness ==
    /\ pc[1] = "finish" /\ pc[2] = "finish"
    /\ resp[1].code = OK /\ resp[2].code = NOT_FOUND
    /\ Len(headers[1]) = 2

\* the target of connection c was there at the existence check and is gone
\* when the resolver opens it
VanishedAtOpen(c) == pc[c] = "open" /\ ~ExistsPath(fs, file_path[c])

\* open() found the target of connection c gone
OpenFoundNothing(c) == exc[c].type = "FileNotFoundError"

\* the whole of a 500 answer on the wire: the status line, then the line
\* that ends the connection's output
Wire500 == <<"HTTP/1.1 500 Internal Server Error\r\n", "\r\n">>

\* C21: when the target is removed between the resolver's existence check
\* and its read, the resolver is left by an exception and produces no
\* response; from then on each step of the handler only moves it on, to the
\* except clause, to the finally clause, to the end of handle(); what the
\* connection has been sent is nothing, then the 500 line, then the whole
\* 500 answer, and never a 200; and until handle() has returned the handler
\* always has a step it can take, so a handler that keeps running finishes
\* the connection
C21_VanishedFileIs500 ==
    /\ [][\A c \in Conns :
            /\ (VanishedAtOpen(c) /\ pc'[c] # pc[c]) =>
                    /\ pc'[c] = "except"
                    /\ OpenFoundNothing(c)'
                    /\ resp'[c] = NoResponse
                    /\ out'[c] = <<>>
            /\ (OpenFoundNothing(c) /\ pc'[c] # pc[c]) =>
                    /\ pc[c] = "except" => pc'[c] = "finish"
                    /\ pc[c] = "finish" => pc'[c] = "done"
                    /\ OpenFoundNothing(c)']_vars
    /\ [](\A c \in Conns :
            /\ OpenFoundNothing(c) =>
                    /\ resp[c] = NoResponse
                    /\ pc[c] \in {"except", "finish", "done"}
                    /\ pc[c] = "except" => out[c] = <<>>
                    /\ pc[c] = "finish" => out[c] = SubSeq(Wire500, 1, 1)
                    /\ pc[c] = "done" => out[c] = Wire500
                    /\ \A i \in DOMAIN out[c] :
                           ~StartsWith(out[c][i], "HTTP/1.1 200")
            /\ (VanishedAtOpen(c) \/ (OpenFoundNothing(c) /\ pc[c] # "done")) =>
                    ENABLED HandlerStep(c))

\* a connection finished after its target, found by the existence check,
\* was gone at the open
C21_Witness ==
    \E c \in Conns :
        /\ pc[c] = "done"
        /\ OpenFoundNothing(c)
        /\ Len(fsCalls[c]) >= 2
        /\ fsCalls[c][Len(fsCalls[c]) - 1] = <<"exists", file_path[c]>>
        /\ fsCalls[c][Len(fsCalls[c])] = <<"open", file_path[c]>>
        /\ out[c] = Wire500

\* the last of the header lines repeats a name that came before it, with
\* a line of another name in between; no line among them is a continuation
RepeatsAcrossOthers(lines) ==
    /\ Len(lines) >= 3
    /\ \A k \in DOMAIN lines : ~IsContinuation(lines[k])
    /\ \E i \in DOMAIN lines : \E j \in DOMAIN lines :
            /\ i < j /\ j < Len(lines)
            /\ NameOf(lines[i]) = NameOf(lines[Len(lines)])
            /\ NameOf(lines[j]) # NameOf(lines[Len(lines)])

\* C22: when the header parser takes a continuation line right after a
\* header line that repeated a name N seen before, other names having come
\* in between, the mapping keeps its names in the order of their first
\* appearance, the value of N becomes its merged value (the trimmed values
\* of the lines named N joined with ','), a space and the trimmed
\* continuation, and every other entry is what it was: its name with its
\* own merged value
C22_ContinuationAfterRepeat ==
    [][\A c \in Conns :
          (/\ pc[c] = "read_headers"
           /\ pos'[c] = pos[c] + 1
           /\ IsContinuation(PeerLine(c, pos[c] + 1))
           /\ RepeatsAcrossOthers(ConsumedHeaderLines(c)))
          => LET line  == PeerLine(c, pos[c] + 1)
                 lines == ConsumedHeaderLines(c)
                 N     == NameOf(lines[Len(lines)])
                 names == DistinctNames(lines, <<>>)
             IN  /\ pc'[c] = "read_headers"
                 /\ Len(headers'[c]) = Len(names)
                 /\ \A i \in DOMAIN names :
                        /\ headers'[c][i][1] = names[i]
                        /\ IF names[i] = N
                           THEN headers'[c][i][2] =
                                    Join(ValuesNamed(lines, N), ",")
                                    \o " " \o Strip(line)
                           ELSE /\ headers'[c][i] = headers[c][i]
                                /\ headers'[c][i][2] =
                                       Join(ValuesNamed(lines, names[i]), ",")]_vars

\* a request parsed from X-A, X-B, X-A again and a continuation line
C22_Witness ==
    \E c \in Conns :
        /\ pc[c] = "done"
        /\ Len(inp[c]) >= 5
        /\ PeerLine(c, 4) = "X-A: 3"
        /\ PeerLine(c, 5) = "\tmore"
        /\ req[c].headers = << <<"X-A", "1,3 more">>, <<"X-B", "2">> >>

====
